---- MODULE Spec2Model ----
(***************************************************************************)
(* Model of app.py: the preprocess feature encoder, the cached model       *)
(* loader and the Streamlit script with its predict button handler.        *)
(*                                                                         *)
(* Python values are tagged records [t, s, n] so that strings, numbers,    *)
(* None and datetimes can live in one dict: t is the Python type, s the    *)
(* string payload, n the numeric payload.  Numbers are whole units; a      *)
(* datetime carries the minute of the day.                                 *)
(***************************************************************************)
EXTENDS Integers, Sequences, FiniteSets, TLC

VARIABLES input_data, arg, orig, out, prev, calls,
          cache_resource, loads, model, widgets, rendered, answer, shown

vars == <<input_data, arg, orig, out, prev, calls,
          cache_resource, loads, model, widgets, rendered, answer, shown>>

encVars == <<input_data, arg, orig, out, prev, calls>>
appVars == <<cache_resource, loads, model, widgets, rendered, answer, shown>>

\* ---------------------------------------------------------------- values
None == [t |-> "none", s |-> "", n |-> 0]
Str(x) == [t |-> "str", s |-> x, n |-> 0]
Num(x) == [t |-> "num", s |-> "", n |-> x]
Time(h, m) == [t |-> "time", s |-> "", n |-> h * 60 + m]
DateTime(h, m) == [t |-> "datetime", s |-> "", n |-> h * 60 + m]

\* datetime.combine(datetime.today(), pickup_time): the time of day is kept
combine(tm) == [t |-> "datetime", s |-> "", n |-> tm.n]

\* the .hour attribute of a datetime
hour(v) == v.n \div 60

\* dict assignment d[k] = v
Put(d, k, v) == [x \in (DOMAIN d) \cup {k} |-> IF x = k THEN v ELSE d[x]]

NoData == [k \in {} |-> None]

\* ---------------------------------------------------------------- bounds
MaxCalls == 3

\* ---------------------------------------------------------- encoding maps
status_map == ("Completed" :> 0) @@ ("Cancelled by Customer" :> 1)
              @@ ("Cancelled by Driver" :> 2) @@ ("Incomplete" :> 3)

payment_map == ("Cash" :> 0) @@ ("Card" :> 1) @@ ("Wallet" :> 2)
               @@ ("UPI" :> 3) @@ ("Other" :> 4)

ordered_swapped ==
    << "Avg VTAT", "Ride Distance", "Booking Value",
       "Customer Rating", "Driver Ratings",
       "Payment Method", "Booking Status",
       "missing_booking_value", "missing_payment_method",
       "missing_driver_rating", "missing_customer_rating",
       "is_cancelled_customer", "is_cancelled_driver", "is_incomplete",
       "hour" >>

ordered ==
    << "Avg VTAT", "Ride Distance", "Booking Value",
       "Customer Rating", "Driver Ratings",
       "Booking Status", "Payment Method",
       "missing_booking_value", "missing_payment_method",
       "missing_driver_rating", "missing_customer_rating",
       "is_cancelled_customer", "is_cancelled_driver", "is_incomplete",
       "hour" >>

\* ------------------------------------------------------------ preprocess
\* int(b)
int(b) == IF b THEN Num(1) ELSE Num(0)

\* a truthiness test instead of the membership test: 0 counts as missing
is_missing_falsy(v) == v = None \/ v = Str("") \/ v = Num(0)

\* v in [None, ""]
is_missing(v) == v = None \/ v = Str("")

missing_flags(d) ==
    LET d1 == Put(d, "missing_booking_value", int(is_missing(d["Booking Value"])))
        d2 == Put(d1, "missing_payment_method", int(is_missing(d1["Payment Method"])))
        d3 == Put(d2, "missing_driver_rating", int(is_missing(d2["Driver Ratings"])))
    IN  Put(d3, "missing_customer_rating", int(is_missing(d3["Customer Rating"])))

\* number_input(min_value, max_value) of the numeric widgets
number_input_bounds ==
    ("Avg VTAT" :> <<0, 120>>) @@ ("Booking Value" :> <<0, 10000>>)
    @@ ("Customer Rating" :> <<0, 5>>) @@ ("Ride Distance" :> <<0, 500>>)
    @@ ("Driver Ratings" :> <<0, 5>>)

InDomain(col, v) ==
    v.t = "num" /\ v.n >= number_input_bounds[col][1]
                /\ v.n <= number_input_bounds[col][2]

Clamp(col, v) ==
    IF v.t # "num" THEN v
    ELSE IF v.n < number_input_bounds[col][1] THEN Num(number_input_bounds[col][1])
    ELSE IF v.n > number_input_bounds[col][2] THEN Num(number_input_bounds[col][2])
    ELSE v

ImputeCols == {"Booking Value", "Customer Rating", "Driver Ratings"}

\* imputation that also clamps the present values to the widget bounds
impute_clamped(d) ==
    [k \in DOMAIN d |->
        IF k \in ImputeCols
        THEN (IF is_missing(d[k]) THEN Num(0) ELSE Clamp(k, d[k]))
        ELSE d[k]]

\* for col in [...]: if input_data[col] in [None, ""]: input_data[col] = 0
impute(d) ==
    [k \in DOMAIN d |->
        IF k \in ImputeCols /\ is_missing(d[k]) THEN Num(0) ELSE d[k]]

\* the incomplete flag computed from the wrong status string
status_flags_slip(d) ==
    LET status == d["Booking Status"]
        d1 == Put(d, "is_cancelled_customer", int(status = Str("Cancelled by Customer")))
        d2 == Put(d1, "is_cancelled_driver", int(status = Str("Cancelled by Driver")))
    IN  Put(d2, "is_incomplete", int(status = Str("Cancelled by Driver")))

status_flags(d) ==
    LET status == d["Booking Status"]
        d1 == Put(d, "is_cancelled_customer", int(status = Str("Cancelled by Customer")))
        d2 == Put(d1, "is_cancelled_driver", int(status = Str("Cancelled by Driver")))
    IN  Put(d2, "is_incomplete", int(status = Str("Incomplete")))

\* status_map.get(v, 0): an unknown key silently becomes Completed
status_lookup_default(v) ==
    IF v.t = "str" /\ v.s \in DOMAIN status_map
    THEN [found |-> TRUE, code |-> status_map[v.s]]
    ELSE [found |-> TRUE, code |-> 0]

\* status_map[v]: only the four string keys are found
status_lookup(v) ==
    IF v.t = "str" /\ v.s \in DOMAIN status_map
    THEN [found |-> TRUE, code |-> status_map[v.s]]
    ELSE [found |-> FALSE, code |-> 0]

\* a lookup that special-cases the missing payment method as Other
payment_lookup_blank(v) ==
    IF v.t = "str" /\ v.s \in DOMAIN payment_map
    THEN [found |-> TRUE, code |-> payment_map[v.s]]
    ELSE IF v = None \/ v = Str("")
    THEN [found |-> TRUE, code |-> 4]
    ELSE [found |-> FALSE, code |-> 0]

\* payment_map[v]: only the five string keys are found
payment_lookup(v) ==
    IF v.t = "str" /\ v.s \in DOMAIN payment_map
    THEN [found |-> TRUE, code |-> payment_map[v.s]]
    ELSE [found |-> FALSE, code |-> 0]

NoOut == [kind |-> "none", columns |-> <<>>, row |-> <<>>]
KeyError == [kind |-> "KeyError", columns |-> <<>>, row |-> <<>>]

\* pd.DataFrame([[input_data[col] for col in ordered]], columns=ordered)
DataFrame(d) ==
    [kind |-> "frame", columns |-> ordered,
     row |-> [i \in 1..Len(ordered) |-> d[ordered[i]]]]

\* The whole of preprocess: data is the caller's dict as the call leaves it
\* (the function works in place), out the returned frame or the exception.
preprocess(d) ==
    LET d1 == missing_flags(d)
        d2 == impute(d1)
        d3 == status_flags(d2)
        d4 == Put(d3, "hour", Num(hour(d3["Pickup Time"])))
        st == status_lookup(d4["Booking Status"])
        d5 == Put(d4, "Booking Status", Num(st.code))
        pm == payment_lookup(d5["Payment Method"])
        d6 == Put(d5, "Payment Method", Num(pm.code))
    IN  IF ~st.found THEN [data |-> d4, out |-> KeyError]
        ELSE IF ~pm.found THEN [data |-> d5, out |-> KeyError]
        ELSE [data |-> d6, out |-> DataFrame(d6)]

\* ------------------------------------------------ direct calls of preprocess
\* Records a caller can hand to preprocess: every key of the handler's dict
\* is present; optional fields may be None or "", enum fields may hold a
\* value outside the maps, numbers may lie outside the widget bounds.
VtatValues == {Num(10), Num(121)}
DistanceValues == {Num(5), Num(501)}
BookingValues == {None, Str(""), Num(0), Num(200), Num(10001)}
CustomerRatings == {None, Num(0), Num(4), Num(6)}
DriverRatings == {Str(""), Num(5), Num(-1)}
StatusValues == {Str("Completed"), Str("Cancelled by Customer"),
                 Str("Cancelled by Driver"), Str("Incomplete"),
                 Str("Pending"), None, Num(1)}
PaymentValues == {Str("Cash"), Str("Card"), Str("Wallet"), Str("UPI"),
                  Str("Other"), Str("Crypto"), Str(""), None}
PickupValues == {DateTime(0, 0), DateTime(14, 30), DateTime(23, 59)}

Record(v, d, b, c, r, s, p, t) ==
    ("Avg VTAT" :> v) @@ ("Ride Distance" :> d) @@ ("Booking Value" :> b)
    @@ ("Customer Rating" :> c) @@ ("Driver Ratings" :> r)
    @@ ("Booking Status" :> s) @@ ("Payment Method" :> p)
    @@ ("Pickup Time" :> t)

Records ==
    { Record(v, d, b, c, r, s, p, t) :
        v \in VtatValues, d \in DistanceValues, b \in BookingValues,
        c \in CustomerRatings, r \in DriverRatings, s \in StatusValues,
        p \in PaymentValues, t \in PickupValues }

\* ------------------------------------------------------------ the script
Model == [artifact |-> "urc_model.pkl"]
NoModel == [artifact |-> ""]

\* load_model without the cache_resource decorator: every run unpickles
load_model_uncached(cache, n, fileOk) ==
    IF fileOk
    THEN [cache |-> Model, loads |-> n + 1, value |-> Model, raised |-> FALSE]
    ELSE [cache |-> cache, loads |-> n, value |-> NoModel, raised |-> TRUE]

\* @st.cache_resource def load_model(): the body runs only on a cache miss;
\* an exception from open/pickle.load leaves the cache empty.
load_model(cache, n, fileOk) ==
    IF cache # NoModel
    THEN [cache |-> cache, loads |-> n, value |-> cache, raised |-> FALSE]
    ELSE IF fileOk
    THEN [cache |-> Model, loads |-> n + 1, value |-> Model, raised |-> FALSE]
    ELSE [cache |-> NoModel, loads |-> n, value |-> NoModel, raised |-> TRUE]

StatusOptions == {Str("Completed"), Str("Cancelled by Customer"),
                  Str("Cancelled by Driver"), Str("Incomplete")}
PaymentOptions == {Str("Cash"), Str("Card"), Str("Wallet"), Str("UPI"), Str("Other")}
Times == {Time(0, 0), Time(14, 30)}

\* the column of the handler's dict each numeric widget feeds
column == ("avg_vtat" :> "Avg VTAT") @@ ("booking_value" :> "Booking Value")
          @@ ("customer_rating" :> "Customer Rating")
          @@ ("ride_distance" :> "Ride Distance")
          @@ ("driver_ratings" :> "Driver Ratings")

NumberWidgets == DOMAIN column

\* what a user can type into a number box: the two ends and one step past each
Typed(w) ==
    LET b == number_input_bounds[column[w]]
    IN  {Num(b[1] - 1), Num(b[1]), Num(b[2]), Num(b[2] + 1)}

\* number_input(min_value, max_value): only a value within the bounds is taken
number_input(w, v) == InDomain(column[w], v)

\* the widgets as first rendered: number boxes at min_value, select boxes at
\* their first option, the time box at datetime.now().time()
DefaultWidgets(now) ==
    ("avg_vtat" :> Num(0)) @@ ("booking_value" :> Num(0))
    @@ ("customer_rating" :> Num(0)) @@ ("ride_distance" :> Num(0))
    @@ ("driver_ratings" :> Num(0))
    @@ ("booking_status" :> Str("Completed"))
    @@ ("payment_method" :> Str("Cash")) @@ ("pickup_time" :> now)

\* data = {...} of the button handler
data(w) ==
    Record(w["avg_vtat"], w["ride_distance"], w["booking_value"],
           w["customer_rating"], w["driver_ratings"], w["booking_status"],
           w["payment_method"], combine(w["pickup_time"]))

\* ------------------------------------------------------------ classifier
\* Probabilities are integers in units of 10^-5.
PercentDigits == 2

RECURSIVE Pow10(_)
Pow10(k) == IF k = 0 THEN 1 ELSE 10 * Pow10(k - 1)

ProbOne == Pow10(PercentDigits + 3)

\* the answers of the pickled classifier to predict_proba and predict
Probabilities == {0, 3125, 9375, 99996}
Answers == { [proba |-> <<ProbOne - p, p>>, pred |-> c] :
               p \in Probabilities, c \in {0, 1} }
NoAnswer == [proba |-> <<0, 0>>, pred |-> -1]

\* f"{prob:.2%}": the number of hundredths of a percent, ties to even
PercentFormat(p) ==
    LET q == p \div 10
        r == p % 10
    IN  IF r > 5 \/ (r = 5 /\ q % 2 = 1) THEN q + 1 ELSE q

\* the first entry of the probability row
select_prob_first(proba) == proba[1]

\* model.predict_proba(X)[0][1]
select_prob(proba) == proba[2]

Blank == [kind |-> "blank", value |-> 0, label |-> ""]
Exception == [kind |-> "exception", value |-> 0, label |-> ""]

\* if pred == 1: st.success(...) else: st.error(...)
Results(prob, pred) ==
    [kind |-> "result", value |-> PercentFormat(prob),
     label |-> IF pred = 1 THEN "success" ELSE "error"]

\* One run of the script.  w: the widget values the run sees, button: whether
\* the predict button triggered it, fileOk: whether urc_model.pkl can be
\* opened and unpickled, ans: what the classifier answers.  The handler's
\* dict and frame are locals of the run that creates them.
RunScript(w, button, fileOk, ans) ==
    LET lm == load_model(cache_resource, loads, fileOk)
    IN  /\ cache_resource' = lm.cache
        /\ loads' = lm.loads
        /\ model' = lm.value
        /\ IF lm.raised
           THEN /\ rendered' = FALSE
                /\ shown' = Exception
                /\ answer' = NoAnswer
                /\ widgets' = widgets
                /\ input_data' = NoData
                /\ orig' = NoData
                /\ arg' = NoData
                /\ out' = NoOut
                /\ prev' = NoOut
                /\ calls' = 0
           ELSE /\ rendered' = TRUE
                /\ widgets' = w
                /\ IF ~button
                   THEN /\ shown' = Blank
                        /\ answer' = NoAnswer
                        /\ input_data' = NoData
                        /\ orig' = NoData
                        /\ arg' = NoData
                        /\ out' = NoOut
                        /\ prev' = NoOut
                        /\ calls' = 0
                   ELSE LET r == preprocess(data(w))
                        IN  /\ orig' = data(w)
                            /\ arg' = data(w)
                            /\ input_data' = r.data
                            /\ out' = r.out
                            /\ prev' = NoOut
                            /\ calls' = 1
                            /\ IF r.out.kind # "frame"
                               THEN shown' = Exception /\ answer' = NoAnswer
                               ELSE /\ answer' = ans
                                    /\ shown' = Results(select_prob(ans.proba), ans.pred)

\* The time box is built with value=datetime.now().time(): a run sees either
\* the time the box held or the current time.
PickupSeen(w, tm) == [w EXCEPT !["pickup_time"] = tm]

\* whether urc_model.pkl can be read matters only to a run that reads it
FileStates == IF cache_resource = NoModel THEN BOOLEAN ELSE {TRUE}

\* the page is opened or reloaded
Rerun ==
    \E fileOk \in FileStates, now \in Times :
        \E tm \in (IF rendered THEN {widgets["pickup_time"], now} ELSE {now}) :
            RunScript(PickupSeen(IF rendered THEN widgets ELSE DefaultWidgets(now), tm),
                      FALSE, fileOk, NoAnswer)

\* the user edits a number box
SetNumber ==
    /\ rendered
    /\ \E w \in NumberWidgets, fileOk \in FileStates, now \in Times :
         \E v \in Typed(w), tm \in {widgets["pickup_time"], now} :
            /\ number_input(w, v)
            /\ RunScript(PickupSeen([widgets EXCEPT ![w] = v], tm),
                         FALSE, fileOk, NoAnswer)

\* the user picks an option of a select box or a time
SetChoice ==
    /\ rendered
    /\ \E fileOk \in FileStates :
         \/ \E v \in StatusOptions :
              RunScript([widgets EXCEPT !["booking_status"] = v], FALSE, fileOk, NoAnswer)
         \/ \E v \in PaymentOptions :
              RunScript([widgets EXCEPT !["payment_method"] = v], FALSE, fileOk, NoAnswer)
         \/ \E v \in Times :
              RunScript([widgets EXCEPT !["pickup_time"] = v], FALSE, fileOk, NoAnswer)

\* st.button("Predict Cancellation") is pressed
Predict ==
    /\ rendered
    /\ \E fileOk \in FileStates, now \in Times, ans \in Answers :
         \E tm \in {widgets["pickup_time"], now} :
            RunScript(PickupSeen(widgets, tm), TRUE, fileOk, ans)

\* ------------------------------------------------------- specifications
\* a caller calls preprocess on its dict, and may call it again on the same dict
Call ==
    /\ calls < MaxCalls
    /\ LET r == preprocess(input_data)
       IN  /\ arg' = input_data
           /\ input_data' = r.data
           /\ prev' = out
           /\ out' = r.out
           /\ calls' = calls + 1
    /\ UNCHANGED <<orig, appVars>>

AppStart ==
    /\ cache_resource = NoModel
    /\ loads = 0
    /\ model = NoModel
    /\ rendered = FALSE
    /\ answer = NoAnswer
    /\ shown = Blank

InitEncode ==
    /\ input_data \in Records
    /\ orig = input_data
    /\ arg = NoData
    /\ out = NoOut
    /\ prev = NoOut
    /\ calls = 0
    /\ AppStart
    /\ widgets = DefaultWidgets(Time(0, 0))

NextEncode == Call

SpecEncode == InitEncode /\ [][NextEncode]_vars

Init ==
    /\ input_data = NoData
    /\ orig = NoData
    /\ arg = NoData
    /\ out = NoOut
    /\ prev = NoOut
    /\ calls = 0
    /\ AppStart
    /\ widgets \in {DefaultWidgets(now) : now \in Times}

Next == Rerun \/ SetNumber \/ SetChoice \/ Predict

Spec == Init /\ [][Next]_vars

\* ------------------------------------------------------------ properties
KnownStatus == {Str("Completed"), Str("Cancelled by Customer"),
                Str("Cancelled by Driver"), Str("Incomplete")}
KnownPayment == {Str("Cash"), Str("Card"), Str("Wallet"), Str("UPI"), Str("Other")}
Absent(v) == v = None \/ v = Str("")

ValidRecord(d) ==
    /\ DOMAIN d # {}
    /\ d["Booking Status"] \in KnownStatus
    /\ d["Payment Method"] \in KnownPayment

ExpectedStatus(v) ==
    CASE v = Str("Completed") -> 0
      [] v = Str("Cancelled by Customer") -> 1
      [] v = Str("Cancelled by Driver") -> 2
      [] v = Str("Incomplete") -> 3
      [] OTHER -> -1

ExpectedPayment(v) ==
    CASE v = Str("Cash") -> 0
      [] v = Str("Card") -> 1
      [] v = Str("Wallet") -> 2
      [] v = Str("UPI") -> 3
      [] v = Str("Other") -> 4
      [] OTHER -> -1

Flag(b) == IF b THEN Num(1) ELSE Num(0)
Returned == calls >= 1 /\ out.kind = "frame"

\* C1: for every valid record preprocess returns a row of exactly 15 fields
\* in the fixed order: the five numeric fields (the optional ones imputed),
\* the encoded status and payment method, the four missing flags, the three
\* status flags and the hour, with the status and payment codes of the maps.
C1_VectorLayout ==
    (calls >= 1 /\ ValidRecord(arg)) =>
        /\ out.kind = "frame"
        /\ Len(out.row) = 15
        /\ Len(out.columns) = 15
        /\ out.row[1] = arg["Avg VTAT"]
        /\ out.row[2] = arg["Ride Distance"]
        /\ out.row[3] = (IF Absent(arg["Booking Value"]) THEN Num(0) ELSE arg["Booking Value"])
        /\ out.row[4] = (IF Absent(arg["Customer Rating"]) THEN Num(0) ELSE arg["Customer Rating"])
        /\ out.row[5] = (IF Absent(arg["Driver Ratings"]) THEN Num(0) ELSE arg["Driver Ratings"])
        /\ out.row[6] = Num(ExpectedStatus(arg["Booking Status"]))
        /\ out.row[7] = Num(ExpectedPayment(arg["Payment Method"]))
        /\ out.row[8] = Flag(Absent(arg["Booking Value"]))
        /\ out.row[9] = Num(0)
        /\ out.row[10] = Flag(Absent(arg["Driver Ratings"]))
        /\ out.row[11] = Flag(Absent(arg["Customer Rating"]))
        /\ out.row[12] = Flag(arg["Booking Status"] = Str("Cancelled by Customer"))
        /\ out.row[13] = Flag(arg["Booking Status"] = Str("Cancelled by Driver"))
        /\ out.row[14] = Flag(arg["Booking Status"] = Str("Incomplete"))
        /\ out.row[15] = Num(arg["Pickup Time"].n \div 60)

C1_Witness ==
    /\ Returned
    /\ arg["Booking Status"] = Str("Cancelled by Driver")
    /\ arg["Payment Method"] = Str("UPI")
    /\ arg["Booking Value"] = None
    /\ arg["Pickup Time"] = DateTime(14, 30)
    /\ out.row[6] = Num(2) /\ out.row[7] = Num(3) /\ out.row[15] = Num(14)

\* C2: calling preprocess twice in succession on the same valid record
\* succeeds both times and returns identical vectors.
C2_Idempotent ==
    (calls >= 2 /\ ValidRecord(orig)) =>
        /\ prev.kind = "frame"
        /\ out.kind = "frame"
        /\ out = prev

\* C3: after any call of preprocess, returned or failed, the caller's record
\* holds exactly the keys and values it held before the call.
C3_InputUnchanged == calls >= 1 => input_data = arg

C5_FlagsAndImputation ==
    Returned =>
        /\ IF Absent(arg["Booking Value"])
           THEN out.row[8] = Num(1) /\ out.row[3] = Num(0)
           ELSE out.row[8] = Num(0) /\ out.row[3] = arg["Booking Value"]
        /\ IF Absent(arg["Customer Rating"])
           THEN out.row[11] = Num(1) /\ out.row[4] = Num(0)
           ELSE out.row[11] = Num(0) /\ out.row[4] = arg["Customer Rating"]
        /\ IF Absent(arg["Driver Ratings"])
           THEN out.row[10] = Num(1) /\ out.row[5] = Num(0)
           ELSE out.row[10] = Num(0) /\ out.row[5] = arg["Driver Ratings"]

C5_Witness ==
    /\ Returned
    /\ arg["Booking Value"] = Num(0) /\ out.row[8] = Num(0)
    /\ arg["Customer Rating"] = None /\ out.row[11] = Num(1)
    /\ arg["Driver Ratings"] = Str("") /\ out.row[5] = Num(0)

\* C6: in every returned vector each status flag is 1 exactly when the input
\* status, and the encoded status field, is the matching one; at most one
\* flag is 1 and all are 0 for Completed.
C6_StatusFlags ==
    Returned =>
        /\ out.row[12] = Flag(arg["Booking Status"] = Str("Cancelled by Customer"))
        /\ out.row[13] = Flag(arg["Booking Status"] = Str("Cancelled by Driver"))
        /\ out.row[14] = Flag(arg["Booking Status"] = Str("Incomplete"))
        /\ out.row[12] = Flag(out.row[6] = Num(1))
        /\ out.row[13] = Flag(out.row[6] = Num(2))
        /\ out.row[14] = Flag(out.row[6] = Num(3))
        /\ out.row[12].n + out.row[13].n + out.row[14].n <= 1
        /\ (out.row[6] = Num(0) => out.row[12].n + out.row[13].n + out.row[14].n = 0)

C6_Witness ==
    /\ Returned
    /\ arg["Booking Status"] = Str("Incomplete")
    /\ out.row[14] = Num(1) /\ out.row[12] = Num(0) /\ out.row[13] = Num(0)

\* C7: the outcome shown is "likely to complete" exactly when the predicted
\* class is 1, otherwise the cancellation warning, and the probability shown
\* is the second entry of the classifier's probability row.
C7_LabelConvention ==
    shown.kind = "result" =>
        /\ shown.value = PercentFormat(answer.proba[2])
        /\ shown.label \in {"success", "error"}
        /\ (shown.label = "success" <=> answer.pred = 1)

C7_Witness ==
    /\ shown.kind = "result"
    /\ answer.proba = <<ProbOne - 3125, 3125>>
    /\ shown.value = 312
    /\ answer.pred = 1
    /\ shown.label = "success"

\* C8: over any sequence of script runs the model file is loaded at most
\* once, a prediction is shown only by a run that holds the loaded model, and
\* no run changes the model once it is cached.
C8_LoadedOnce ==
    [][ /\ loads' <= 1
        /\ (cache_resource # NoModel => cache_resource' = cache_resource)
        /\ (shown'.kind = "result" =>
               model' = Model /\ cache_resource' = Model /\ loads' = 1) ]_vars

C8_Witness ==
    /\ shown.kind = "result"
    /\ loads = 1
    /\ cache_resource = Model

\* C9 as claimed: a returned vector never carries a numeric value outside
\* its declared domain.
C9_NoOutOfDomain ==
    Returned =>
        /\ InDomain("Avg VTAT", out.row[1])
        /\ InDomain("Ride Distance", out.row[2])
        /\ InDomain("Booking Value", out.row[3])
        /\ InDomain("Customer Rating", out.row[4])
        /\ InDomain("Driver Ratings", out.row[5])

\* C9 amended: preprocess neither rejects nor clamps: every numeric value
\* that is present goes into the vector unchanged, inside its declared
\* domain or not.
C9_PassThrough ==
    (calls >= 1 /\ arg["Booking Status"] \in KnownStatus
                /\ arg["Payment Method"] \in KnownPayment) =>
        /\ out.kind = "frame"
        /\ out.row[1] = arg["Avg VTAT"]
        /\ out.row[2] = arg["Ride Distance"]
        /\ (~Absent(arg["Booking Value"]) => out.row[3] = arg["Booking Value"])
        /\ (~Absent(arg["Customer Rating"]) => out.row[4] = arg["Customer Rating"])
        /\ (~Absent(arg["Driver Ratings"]) => out.row[5] = arg["Driver Ratings"])

C9_Witness ==
    /\ Returned
    /\ out.row[1] = Num(121)
    /\ out.row[2] = Num(501)
    /\ out.row[3] = Num(10001)
    /\ out.row[4] = Num(6)
    /\ out.row[5] = Num(-1)

\* C10: an absent payment method (None or "") never yields a vector: the
\* missing-payment flag is set and the lookup then fails, so every returned
\* vector has missing-payment flag 0 and a payment code in 0..4.
C10_AbsentPaymentFails ==
    /\ (calls >= 1 /\ Absent(arg["Payment Method"])) =>
          /\ out.kind = "KeyError"
          /\ input_data["missing_payment_method"] = Num(1)
    /\ Returned =>
          /\ out.row[9] = Num(0)
          /\ out.row[7].t = "num"
          /\ out.row[7].n \in 0..4

C10_Witness ==
    /\ calls >= 1
    /\ arg["Booking Status"] = Str("Completed")
    /\ arg["Payment Method"] = Str("")
    /\ out.kind = "KeyError"
    /\ input_data["missing_payment_method"] = Num(1)
    /\ input_data["Booking Status"] = Num(0)
====
